---- MODULE Spec2Model ----
(***************************************************************************)
(* A model of main.py: the APIFetcher, the RedisManager (a JSON cache on   *)
(* top of a key-value store), the ChartGenerator, the DataAggregator and   *)
(* the module-level driver that wires them together.                       *)
(*                                                                         *)
(* Python values are tagged records.  Text (a JSON blob, an HTTP body) is  *)
(* a sequence of one-character strings, so that json.dumps and json.loads  *)
(* are a real printer and a real parser.                                   *)
(***************************************************************************)
EXTENDS Integers, Sequences, FiniteSets, TLC

VARIABLES
    db,             \* RedisManager.db: the backend, a function key -> blob
    call,           \* the RedisManager method called last
    ret,            \* what that call returned (or raised)
    last,           \* history: per key, the value of the latest insert_data
    pc,             \* the driver's position in the module-level statements
    gets,           \* history: the HTTP GETs issued so far
    response,       \* the outcome of requests.get
    error,          \* the exception that ended the run, if one did
    comments_data,  \* driver: the fetched value
    processed_data, \* driver: the value read back, then the DataFrame
    files,          \* the image files written so far: name -> what is plotted
    stdout,         \* the lines printed
    log,            \* history: the stages completed, in order
    data,           \* ChartGenerator.data / DataAggregator.data
    out             \* what the last chart or aggregate call produced

vars == <<db, call, ret, last, pc, gets, response, error, comments_data,
          processed_data, files, stdout, log, data, out>>

-----------------------------------------------------------------------------
(* Bounds of the explored inputs.                                          *)

MaxLen == 2
MaxPairs == 2
MaxRecs == 3
MaxRows == 3
MaxBodyLen == 2
MaxBins == 3

-----------------------------------------------------------------------------
(* Python values.                                                          *)

PyNone == [t |-> "null"]
PyBool(b) == [t |-> "bool", b |-> b]
PyInt(n) == [t |-> "int", n |-> n]
PyStr(s) == [t |-> "str", s |-> s]
PyList(xs) == [t |-> "list", xs |-> xs]
PyDict(kv) == [t |-> "dict", kv |-> kv]
Raise(e) == [t |-> "raise", exc |-> e]

Raised(x) == x.t = "raise"

\* Python truthiness, as `if data:` tests it.
Truthy(x) ==
    CASE x.t = "null" -> FALSE
      [] x.t = "bool" -> x.b
      [] x.t = "int" -> x.n # 0
      [] x.t = "str" -> x.s # <<>>
      [] x.t = "list" -> x.xs # <<>>
      [] x.t = "dict" -> x.kv # <<>>
      [] OTHER -> TRUE

-----------------------------------------------------------------------------
(* json.dumps                                                              *)

Digit == <<"0", "1", "2", "3", "4", "5", "6", "7", "8", "9">>

RECURSIVE NatToStr(_)
NatToStr(n) ==
    IF n < 10 THEN <<Digit[n + 1]>>
    ELSE Append(NatToStr(n \div 10), Digit[(n % 10) + 1])

IntToStr(n) == IF n < 0 THEN <<"-">> \o NatToStr(-n) ELSE NatToStr(n)

RECURSIVE Escape(_)
Escape(s) ==
    IF s = <<>> THEN <<>>
    ELSE (IF Head(s) \in {"\"", "\\"} THEN <<"\\", Head(s)>> ELSE <<Head(s)>>)
         \o Escape(Tail(s))

Quoted(s) == <<"\"">> \o Escape(s) \o <<"\"">>

\* A mapping key as json.dumps writes it: a str as it is, an int as its
\* decimal text, both between quotes.
DumpsKey(k) ==
    CASE k.t = "str" -> Quoted(k.s)
      [] k.t = "int" -> Quoted(IntToStr(k.n))
      [] k.t = "bool" -> Quoted(IF k.b THEN <<"t", "r", "u", "e">>
                                       ELSE <<"f", "a", "l", "s", "e">>)
      [] k.t = "null" -> Quoted(<<"n", "u", "l", "l">>)

RECURSIVE dumps(_), DumpsItems(_), DumpsPairs(_)
dumps(v) ==
    CASE v.t = "null" -> <<"n", "u", "l", "l">>
      [] v.t = "bool" -> IF v.b THEN <<"t", "r", "u", "e">>
                                ELSE <<"f", "a", "l", "s", "e">>
      [] v.t = "int" -> IntToStr(v.n)
      [] v.t = "str" -> Quoted(v.s)
      [] v.t = "list" -> <<"[">> \o DumpsItems(v.xs) \o <<"]">>
      [] v.t = "dict" -> <<"{">> \o DumpsPairs(v.kv) \o <<"}">>

DumpsItems(xs) ==
    IF xs = <<>> THEN <<>>
    ELSE dumps(Head(xs))
         \o (IF Len(xs) > 1 THEN <<",", " ">> ELSE <<>>)
         \o DumpsItems(Tail(xs))

DumpsPairs(kv) ==
    IF kv = <<>> THEN <<>>
    ELSE DumpsKey(Head(kv)[1]) \o <<":", " ">> \o dumps(Head(kv)[2])
         \o (IF Len(kv) > 1 THEN <<",", " ">> ELSE <<>>)
         \o DumpsPairs(Tail(kv))

-----------------------------------------------------------------------------
(* json.loads: a recursive-descent parser over the text.  A parse result   *)
(* is [ok, v, i]: whether a value was read, the value, and the index after *)
(* it.                                                                     *)

Fail == [ok |-> FALSE, v |-> PyNone, i |-> 0]
Got(v, i) == [ok |-> TRUE, v |-> v, i |-> i]

RECURSIVE SkipWs(_, _)
SkipWs(s, i) == IF i <= Len(s) /\ s[i] = " " THEN SkipWs(s, i + 1) ELSE i

At(s, i, c) == i <= Len(s) /\ s[i] = c

Lit(s, i, w) == i + Len(w) - 1 <= Len(s) /\ SubSeq(s, i, i + Len(w) - 1) = w

DigitVal(c) == CHOOSE d \in 0..9 : Digit[d + 1] = c
IsDigit(s, i) == i <= Len(s) /\ \E d \in 0..9 : Digit[d + 1] = s[i]

RECURSIVE ScanDigits(_, _, _)
ScanDigits(s, i, acc) ==
    IF IsDigit(s, i) THEN ScanDigits(s, i + 1, 10 * acc + DigitVal(s[i]))
    ELSE Got(PyInt(acc), i)

\* -?(0|[1-9][0-9]*)
ParseNat(s, i) ==
    IF ~IsDigit(s, i) THEN Fail
    ELSE IF s[i] = "0" THEN Got(PyInt(0), i + 1)
    ELSE ScanDigits(s, i, 0)

ParseNumber(s, i) ==
    IF At(s, i, "-")
    THEN LET r == ParseNat(s, i + 1)
         IN  IF r.ok THEN Got(PyInt(-r.v.n), r.i) ELSE Fail
    ELSE ParseNat(s, i)

\* The text after an opening quote, up to the closing one.
RECURSIVE ScanString(_, _, _)
ScanString(s, i, acc) ==
    IF i > Len(s) THEN Fail
    ELSE IF s[i] = "\"" THEN Got(PyStr(acc), i + 1)
    ELSE IF s[i] = "\\"
         THEN IF i + 1 <= Len(s) /\ s[i + 1] \in {"\"", "\\"}
              THEN ScanString(s, i + 2, Append(acc, s[i + 1]))
              ELSE Fail
    ELSE ScanString(s, i + 1, Append(acc, s[i]))

\* dict[k] = v: a key already there keeps its place and takes the new value.
RECURSIVE DictPut(_, _, _)
DictPut(kv, k, v) ==
    IF kv = <<>> THEN << <<k, v>> >>
    ELSE IF Head(kv)[1] = k THEN << <<k, v>> >> \o Tail(kv)
    ELSE <<Head(kv)>> \o DictPut(Tail(kv), k, v)

RECURSIVE ParseValue(_, _), ParseItems(_, _, _), ParsePairs(_, _, _)
ParseValue(s, i) ==
    IF i > Len(s) THEN Fail
    ELSE IF Lit(s, i, <<"n", "u", "l", "l">>) THEN Got(PyNone, i + 4)
    ELSE IF Lit(s, i, <<"t", "r", "u", "e">>) THEN Got(PyBool(TRUE), i + 4)
    ELSE IF Lit(s, i, <<"f", "a", "l", "s", "e">>) THEN Got(PyBool(FALSE), i + 5)
    ELSE IF s[i] = "\"" THEN ScanString(s, i + 1, <<>>)
    ELSE IF s[i] = "["
         THEN LET j == SkipWs(s, i + 1)
              IN  IF At(s, j, "]") THEN Got(PyList(<<>>), j + 1)
                  ELSE ParseItems(s, j, <<>>)
    ELSE IF s[i] = "{"
         THEN LET j == SkipWs(s, i + 1)
              IN  IF At(s, j, "}") THEN Got(PyDict(<<>>), j + 1)
                  ELSE ParsePairs(s, j, <<>>)
    ELSE ParseNumber(s, i)

\* At the start of an item of a list whose earlier items are acc.
ParseItems(s, i, acc) ==
    LET r == ParseValue(s, i)
    IN  IF ~r.ok THEN Fail
        ELSE LET j == SkipWs(s, r.i)
                 xs == Append(acc, r.v)
             IN  IF At(s, j, ",") THEN ParseItems(s, SkipWs(s, j + 1), xs)
                 ELSE IF At(s, j, "]") THEN Got(PyList(xs), j + 1)
                 ELSE Fail

\* At the start of a "key": value pair of an object whose earlier pairs are acc.
ParsePairs(s, i, acc) ==
    IF ~At(s, i, "\"") THEN Fail
    ELSE LET k == ScanString(s, i + 1, <<>>)
         IN  IF ~k.ok THEN Fail
             ELSE LET c == SkipWs(s, k.i)
                  IN  IF ~At(s, c, ":") THEN Fail
                      ELSE LET r == ParseValue(s, SkipWs(s, c + 1))
                           IN  IF ~r.ok THEN Fail
                               ELSE LET j == SkipWs(s, r.i)
                                        kv == DictPut(acc, k.v, r.v)
                                    IN  IF At(s, j, ",")
                                        THEN ParsePairs(s, SkipWs(s, j + 1), kv)
                                        ELSE IF At(s, j, "}")
                                        THEN Got(PyDict(kv), j + 1)
                                        ELSE Fail

\* json.loads(text): one value, then nothing but white space.
loads(s) ==
    LET r == ParseValue(s, SkipWs(s, 1))
    IN  IF ~r.ok THEN Raise("JSONDecodeError")
        ELSE IF SkipWs(s, r.i) <= Len(s) THEN Raise("JSONDecodeError")
        ELSE r.v

-----------------------------------------------------------------------------
(* The values and the backend states explored.                             *)

SeqsUpTo(S, n) == UNION {[1..m -> S] : m \in 0..n}

Scalars ==
    {PyNone, PyBool(FALSE), PyBool(TRUE), PyInt(0), PyInt(12),
     PyStr(<<>>), PyStr(<<"a">>), PyStr(<<"\"", "\\">>)}

Items == {PyNone, PyStr(<<"a">>)}

Lists == {PyList(xs) : xs \in SeqsUpTo(Items, MaxLen)}

\* Mapping keys: two strings and an int whose text is one of them.
DictKeys == {PyStr(<<"a">>), PyStr(<<"1">>), PyInt(1)}

DistinctKeys(kv) == \A i, j \in DOMAIN kv : i # j => kv[i][1] # kv[j][1]

Dicts ==
    {PyDict(kv) : kv \in {p \in SeqsUpTo(DictKeys \X {PyStr(<<"a">>)}, MaxPairs) :
                             DistinctKeys(p)}}

Nested ==
    {PyList(<<PyList(<<>>), PyInt(0)>>),
     PyDict(<< <<PyInt(1), PyNone>>, <<PyStr(<<"1">>), PyInt(12)>> >>),
     PyList(<<PyDict(<< <<PyInt(1), PyBool(FALSE)>> >>)>>),
     PyDict(<< <<PyStr(<<"a">>), PyList(<<PyNone>>)>> >>),
     PyDict(<< <<PyStr(<<"\"">>), PyDict(<<>>)>> >>)}

Values == Scalars \cup Lists \cup Dicts \cup Nested

\* Whether every mapping key in v, at any depth, is a str.
RECURSIVE StrKeyed(_)
StrKeyed(v) ==
    CASE v.t = "list" -> \A i \in DOMAIN v.xs : StrKeyed(v.xs[i])
      [] v.t = "dict" -> \A i \in DOMAIN v.kv :
                            v.kv[i][1].t = "str" /\ StrKeyed(v.kv[i][2])
      [] OTHER -> TRUE

Keys == {"comments_data", "other"}

\* Blobs a backend may hold before the program touches it: an empty one,
\* one that is not JSON, and JSON written by some other client.
RawBlobs ==
    {<<>>, <<"x">>, <<"n", "u", "l", "l">>, <<" ", "[", "0", " ", ",", "1", "]", " ">>}

Backends == UNION {[K -> RawBlobs] : K \in SUBSET Keys}

NoVal == [t |-> "unset"]
NoCall == [op |-> "none", key |-> "", had |-> FALSE]

-----------------------------------------------------------------------------
(* RedisManager                                                            *)

\* redis SET: the blob under key is replaced, every other entry is kept.
Set(d, key, blob) ==
    [k \in DOMAIN d \cup {key} |-> IF k = key THEN blob ELSE d[k]]

\* redis GET with decode_responses=True: the blob as a str, or None.
Get(d, key) == IF key \in DOMAIN d THEN PyStr(d[key]) ELSE PyNone

insert_data(d, key, v) == Set(d, key, dumps(v))

\* A plausible slip: the stored text is returned without decoding it.
retrieve_data_raw(d, key) ==
    LET blob == Get(d, key) IN IF Truthy(blob) THEN blob ELSE PyNone

\* A plausible slip: an absent key yields an empty list, not None.
retrieve_data_default(d, key) ==
    LET blob == Get(d, key) IN IF Truthy(blob) THEN loads(blob.s) ELSE PyList(<<>>)

retrieve_data(d, key) ==
    LET blob == Get(d, key) IN IF Truthy(blob) THEN loads(blob.s) ELSE PyNone

-----------------------------------------------------------------------------
(* pandas: a DataFrame is its column names and its rows, a row a function  *)
(* from column name to cell.  A float is kept as an exact fraction.        *)

NaN == [t |-> "nan"]
Frame(cols, rows) == [t |-> "frame", cols |-> cols, rows |-> rows]
EmptyFrame == Frame(<<>>, <<>>)

Range(f) == {f[i] : i \in DOMAIN f}

RECURSIVE GCD(_, _)
GCD(a, b) == IF b = 0 THEN a ELSE GCD(b, a % b)

Float(num, den) ==
    LET g == GCD(IF num < 0 THEN -num ELSE num, den)
    IN  [t |-> "float", num |-> num \div g, den |-> den \div g]

DictGet(kv, k) ==
    IF \E i \in DOMAIN kv : kv[i][1] = k
    THEN kv[CHOOSE i \in DOMAIN kv : kv[i][1] = k][2]
    ELSE NaN

\* The column names of a list of records: the keys in order of first appearance.
RECURSIVE AddKeys(_, _)
AddKeys(cols, kv) ==
    IF kv = <<>> THEN cols
    ELSE AddKeys(IF Head(kv)[1].s \in Range(cols) THEN cols
                 ELSE Append(cols, Head(kv)[1].s), Tail(kv))

RECURSIVE Columns(_, _)
Columns(cols, recs) ==
    IF recs = <<>> THEN cols
    ELSE Columns(AddKeys(cols, Head(recs).kv), Tail(recs))

\* pd.DataFrame(data): a DataFrame as it is, None or an empty list or dict
\* as the empty frame, a list of records as one row per record with NaN for
\* a field the record lacks; a bare scalar is refused.
DataFrame(v) ==
    CASE v.t = "frame" -> v
      [] v.t = "null" -> EmptyFrame
      [] v.t \in {"int", "bool", "str"} -> Raise("ValueError")
      [] v.t = "dict" /\ v.kv = <<>> -> EmptyFrame
      [] v.t = "list" /\ \A i \in DOMAIN v.xs : v.xs[i].t = "dict" ->
            LET cols == Columns(<<>>, v.xs)
            IN  Frame(cols, [i \in DOMAIN v.xs |->
                               [c \in Range(cols) |-> DictGet(v.xs[i].kv, PyStr(c))]])

HasLen(x) == x.t \in {"str", "list", "dict"}
PyLen(x) ==
    CASE x.t = "str" -> Len(x.s) [] x.t = "list" -> Len(x.xs) [] x.t = "dict" -> Len(x.kv)

\* df[column].apply(len): the lengths, row by row.
ApplyLen(df, column) ==
    IF column \notin Range(df.cols) THEN Raise("KeyError")
    ELSE IF \E i \in DOMAIN df.rows : ~HasLen(df.rows[i][column]) THEN Raise("TypeError")
    ELSE [t |-> "series", xs |-> [i \in DOMAIN df.rows |-> PyLen(df.rows[i][column])]]

\* df[column] = series: the column is added (or replaced) in every row.
SetColumn(df, column, xs) ==
    Frame(IF column \in Range(df.cols) THEN df.cols ELSE Append(df.cols, column),
          [i \in DOMAIN df.rows |->
              [c \in Range(df.cols) \cup {column} |->
                  IF c = column THEN PyInt(xs[i]) ELSE df.rows[i][c]]])

RECURSIVE SumSeq(_)
SumSeq(xs) == IF xs = <<>> THEN 0 ELSE Head(xs) + SumSeq(Tail(xs))

\* Series.mean(): the sum over the count; NaN for no values.
Mean(xs) == IF xs = <<>> THEN NaN ELSE Float(SumSeq(xs), Len(xs))

IsNull(x) == x.t \in {"null", "nan"}

RECURSIVE Sorted(_)
Sorted(S) ==
    IF S = {} THEN <<>>
    ELSE LET m == CHOOSE x \in S : \A y \in S : x <= y
         IN  <<m>> \o Sorted(S \ {m})

RECURSIVE SelectCol(_, _, _, _)
SelectCol(rows, by, g, column) ==
    IF rows = <<>> THEN <<>>
    ELSE (IF Head(rows)[by] = PyInt(g) THEN <<Head(rows)[column].n>> ELSE <<>>)
         \o SelectCol(Tail(rows), by, g, column)

\* A plausible slip: groupby(by, dropna=False) keeps a group for the null keys
\* (shown here under key 0).
GroupKeysKeepNull(df, by) ==
    {IF IsNull(df.rows[i][by]) THEN 0 ELSE df.rows[i][by].n : i \in DOMAIN df.rows}

\* The group keys of df.groupby(by): the values of the column, a null one
\* left out (dropna=True is the default).
GroupKeys(df, by) ==
    {df.rows[i][by].n : i \in {j \in DOMAIN df.rows : ~IsNull(df.rows[j][by])}}

\* df.groupby(by)[column].mean(): one (key, mean) per group, in ascending
\* key order.
GroupMean(df, by, column) ==
    IF by \notin Range(df.cols) \/ column \notin Range(df.cols) THEN Raise("KeyError")
    ELSE LET keys == Sorted(GroupKeys(df, by))
         IN  [t |-> "series",
              xs |-> [i \in DOMAIN keys |->
                        <<keys[i], Mean(SelectCol(df.rows, by, keys[i], column))>>]]

SeqMin(xs) == CHOOSE x \in Range(xs) : \A y \in Range(xs) : x <= y
SeqMax(xs) == CHOOSE x \in Range(xs) : \A y \in Range(xs) : x >= y

\* A plausible slip: the last bin is half-open like the others, so a value on
\* the maximum edge falls outside every bin.
BinOfHalfOpen(x, lo, hi, bins) ==
    IF lo = hi THEN bins \div 2 ELSE ((x - lo) * bins) \div (hi - lo)

\* numpy.histogram: the bin (from 0) of x among `bins` equal-width bins over
\* [lo, hi], every bin half-open but the last, which holds hi as well; when
\* lo = hi the range is widened to [lo - 0.5, hi + 0.5].
BinOf(x, lo, hi, bins) ==
    IF lo = hi THEN bins \div 2
    ELSE IF x = hi THEN bins - 1
    ELSE ((x - lo) * bins) \div (hi - lo)

\* Series.plot.hist(bins): the frequency of each bin.
HistCounts(xs, bins) ==
    IF xs = <<>> THEN [b \in 1..bins |-> 0]
    ELSE LET lo == SeqMin(xs)
             hi == SeqMax(xs)
         IN  [b \in 1..bins |->
                Cardinality({i \in DOMAIN xs : BinOf(xs[i], lo, hi, bins) = b - 1})]

-----------------------------------------------------------------------------
(* ChartGenerator and DataAggregator: what each method plots or returns.   *)

\* ChartGenerator.__init__ and DataAggregator.__init__
Construct(v) == DataFrame(v)

line_chart(df, by, column) == GroupMean(df, by, column)

histogram(df, column, bins) ==
    LET lens == ApplyLen(df, column)
    IN  IF Raised(lens) THEN lens
        ELSE [t |-> "hist", counts |-> HistCounts(lens.xs, bins)]

\* A plausible slip: floor division (//) where true division is meant.
average_length_floor(df, column) ==
    LET lens == ApplyLen(df, column)
    IN  IF Raised(lens) THEN lens ELSE Float(SumSeq(lens.xs) \div Len(lens.xs), 1)

average_length(df, column) ==
    LET lens == ApplyLen(df, column)
    IN  IF Raised(lens) THEN lens ELSE Mean(lens.xs)

-----------------------------------------------------------------------------
(* The variables a specification does not use stay at these values.        *)

IdleCache == call = NoCall /\ ret = PyNone /\ last = [k \in Keys |-> NoVal]
IdleDriver ==
    /\ pc = "idle" /\ gets = 0 /\ response = PyNone /\ error = PyNone
    /\ comments_data = PyNone /\ processed_data = PyNone
    /\ files = <<>> /\ stdout = <<>> /\ log = <<>>
IdleCharts == data = PyNone /\ out = PyNone

driverVars ==
    <<pc, gets, response, error, comments_data, processed_data, files, stdout, log>>
cacheVars == <<call, ret, last>>
chartVars == <<data, out>>

-----------------------------------------------------------------------------
(* The cache on its own: any backend, any sequence of calls.               *)

InitCache == db \in Backends /\ IdleCache /\ IdleDriver /\ IdleCharts

\* A plausible slip: SET only when the key is absent (SETNX).
InsertDataIfAbsent(key, v) ==
    /\ db' = IF key \in DOMAIN db THEN db ELSE insert_data(db, key, v)
    /\ call' = [op |-> "insert_data", key |-> key, had |-> key \in DOMAIN db]
    /\ ret' = PyNone
    /\ last' = [last EXCEPT ![key] = v]
    /\ UNCHANGED <<driverVars, chartVars>>

InsertData(key, v) ==
    /\ db' = insert_data(db, key, v)
    /\ call' = [op |-> "insert_data", key |-> key, had |-> key \in DOMAIN db]
    /\ ret' = PyNone
    /\ last' = [last EXCEPT ![key] = v]
    /\ UNCHANGED <<driverVars, chartVars>>

RetrieveData(key) ==
    /\ ret' = retrieve_data(db, key)
    /\ call' = [op |-> "retrieve_data", key |-> key, had |-> key \in DOMAIN db]
    /\ UNCHANGED <<db, last, driverVars, chartVars>>

NextCache ==
    \/ \E key \in Keys, v \in Values : InsertData(key, v)
    \/ \E key \in Keys : RetrieveData(key)

SpecCache == InitCache /\ [][NextCache]_vars

-----------------------------------------------------------------------------
(* The driver: the module-level statements of main.py, one stage each.     *)

POSTID == <<"p", "o", "s", "t", "I", "d">>
BODY == <<"b", "o", "d", "y">>
COMMENT_LENGTH ==
    <<"c", "o", "m", "m", "e", "n", "t", "_", "l", "e", "n", "g", "t", "h">>
EMAIL == <<"e", "m", "a", "i", "l">>

redis_key == "comments_data"
LineChartFile == "average_comment_length_per_post.png"
HistogramFile == "comment_length_distribution.png"
HistogramBins == 20

Rec(postId, body) == PyDict(<< <<PyStr(POSTID), postId>>, <<PyStr(BODY), body>> >>)

\* The comments a response may carry: two posts, a null postId, a null body,
\* and a record with no field at all.
Records ==
    {Rec(PyInt(1), PyStr(<<"h", "i">>)),
     Rec(PyInt(1), PyStr(<<"h", "e", "l", "l", "o">>)),
     Rec(PyInt(2), PyStr(<<"h", "e", "y">>)),
     Rec(PyNone, PyStr(<<"h", "i">>)),
     Rec(PyInt(1), PyNone),
     PyDict(<<>>)}

FetchValues ==
    {PyNone, PyInt(0), PyDict(<<>>)}
        \cup {PyList(recs) : recs \in SeqsUpTo(Records, MaxRecs)}

NetErr == [t |-> "neterr"]
Response(status, text) == [t |-> "response", status_code |-> status, text |-> text]
StatusCodes == {200, 404}
NotJson == <<"<", "h", "t", "m", "l", ">">>

HttpOutcomes ==
    {NetErr} \cup {Response(st, text) : st \in StatusCodes,
                      text \in {dumps(v) : v \in FetchValues} \cup {NotJson}}

\* APIFetcher.get_comments on the outcome of its one requests.get: the GET
\* raising is not caught, and response.json() parses the body whatever the
\* status.
get_comments(r) ==
    IF r.t = "neterr" THEN Raise("ConnectionError") ELSE loads(r.text)

\* A plausible slip: the average is computed and printed before the charts
\* are drawn.
StageAfterAggregateFirst(stage) ==
    CASE stage = "fetch" -> "cache_write"
      [] stage = "cache_write" -> "cache_read"
      [] stage = "cache_read" -> "derive"
      [] stage = "derive" -> "aggregate"
      [] stage = "aggregate" -> "line_chart"
      [] stage = "line_chart" -> "histogram"
      [] stage = "histogram" -> "done"

\* The statement that follows a stage in the module.
StageAfter(stage) ==
    CASE stage = "fetch" -> "cache_write"
      [] stage = "cache_write" -> "cache_read"
      [] stage = "cache_read" -> "derive"
      [] stage = "derive" -> "line_chart"
      [] stage = "line_chart" -> "histogram"
      [] stage = "histogram" -> "aggregate"
      [] stage = "aggregate" -> "done"

Advance(stage) ==
    pc' = StageAfter(stage) /\ log' = Append(log, stage) /\ error' = error

\* A plausible slip: the exception is caught and the run goes on (try/except
\* around the stage).
AbortSwallowed(stage, e) ==
    pc' = StageAfter(stage) /\ error' = e /\ log' = log

\* An exception nothing catches: the module stops at the failing stage.
Abort(stage, e) ==
    pc' = "failed" /\ error' = e /\ log' = log

\* processed_data = pd.DataFrame(processed_data);
\* processed_data['comment_length'] = processed_data['body'].apply(len)
Derived(v) ==
    LET df == DataFrame(v)
    IN  IF Raised(df) THEN df
        ELSE LET lens == ApplyLen(df, BODY)
             IN  IF Raised(lens) THEN lens
                 ELSE SetColumn(df, COMMENT_LENGTH, lens.xs)

DriverBackends == UNION {[K -> {<<>>, <<"x">>}] : K \in SUBSET {redis_key}}

InitDriver ==
    /\ db \in DriverBackends
    /\ pc = "fetch" /\ gets = 0 /\ response = PyNone /\ error = PyNone
    /\ comments_data = PyNone /\ processed_data = PyNone
    /\ files = <<>> /\ stdout = <<>> /\ log = <<>>
    /\ IdleCache /\ IdleCharts

Fetch ==
    /\ pc = "fetch"
    /\ \E r \in HttpOutcomes :
          /\ response' = r
          /\ gets' = gets + 1
          /\ LET got == get_comments(r)
             IN  IF Raised(got)
                 THEN Abort("fetch", got) /\ UNCHANGED comments_data
                 ELSE Advance("fetch") /\ comments_data' = got
    /\ UNCHANGED <<db, processed_data, files, stdout, cacheVars, chartVars>>

\* redis_manager.insert_data(redis_key, comments_data); the backend may be
\* unreachable.
CacheWrite ==
    /\ pc = "cache_write"
    /\ \E up \in BOOLEAN :
          IF up
          THEN Advance("cache_write") /\ db' = insert_data(db, redis_key, comments_data)
          ELSE Abort("cache_write", Raise("ConnectionError")) /\ UNCHANGED db
    /\ UNCHANGED <<gets, response, comments_data, processed_data, files, stdout,
                   cacheVars, chartVars>>

\* processed_data = redis_manager.retrieve_data(redis_key)
CacheRead ==
    /\ pc = "cache_read"
    /\ \E up \in BOOLEAN :
          LET got == IF up THEN retrieve_data(db, redis_key)
                     ELSE Raise("ConnectionError")
          IN  IF Raised(got)
              THEN Abort("cache_read", got) /\ UNCHANGED processed_data
              ELSE Advance("cache_read") /\ processed_data' = got
    /\ UNCHANGED <<db, gets, response, comments_data, files, stdout,
                   cacheVars, chartVars>>

Derive ==
    /\ pc = "derive"
    /\ LET df == DataFrame(processed_data)
           got == Derived(processed_data)
       IN  IF Raised(got)
           THEN /\ Abort("derive", got)
                /\ processed_data' = IF Raised(df) THEN processed_data ELSE df
           ELSE Advance("derive") /\ processed_data' = got
    /\ UNCHANGED <<db, gets, response, comments_data, files, stdout,
                   cacheVars, chartVars>>

\* A plausible slip: the chart keeps its series in the frame, which
\* ChartGenerator shares with the driver.
LineChartStoresColumn ==
    /\ pc = "line_chart"
    /\ data' = Construct(processed_data)
    /\ LET plot == line_chart(data', POSTID, COMMENT_LENGTH)
       IN  IF Raised(plot)
           THEN Abort("line_chart", plot) /\ UNCHANGED <<files, processed_data>>
           ELSE /\ Advance("line_chart")
                /\ files' = Append(files, [name |-> LineChartFile, plot |-> plot])
                /\ processed_data' =
                      SetColumn(processed_data, EMAIL,
                                [i \in DOMAIN processed_data.rows |-> Len(plot.xs)])
    /\ UNCHANGED <<db, gets, response, comments_data, stdout,
                   cacheVars, out>>

\* chart_generator = ChartGenerator(processed_data); chart_generator.line_chart(...)
LineChart ==
    /\ pc = "line_chart"
    /\ data' = Construct(processed_data)
    /\ LET plot == line_chart(data', POSTID, COMMENT_LENGTH)
       IN  IF Raised(plot)
           THEN Abort("line_chart", plot) /\ UNCHANGED files
           ELSE /\ Advance("line_chart")
                /\ files' = Append(files, [name |-> LineChartFile, plot |-> plot])
    /\ UNCHANGED <<db, gets, response, comments_data, processed_data, stdout,
                   cacheVars, out>>

\* chart_generator.histogram('body', ..., 20)
Histogram ==
    /\ pc = "histogram"
    /\ LET plot == histogram(data, BODY, HistogramBins)
       IN  IF Raised(plot)
           THEN Abort("histogram", plot) /\ UNCHANGED files
           ELSE /\ Advance("histogram")
                /\ files' = Append(files, [name |-> HistogramFile, plot |-> plot])
    /\ UNCHANGED <<db, gets, response, comments_data, processed_data, stdout,
                   cacheVars, chartVars>>

\* data_aggregator = DataAggregator(processed_data);
\* print(f'Average Comment Length: {data_aggregator.average_length("body")}')
Aggregate ==
    /\ pc = "aggregate"
    /\ data' = Construct(processed_data)
    /\ LET avg == average_length(data', BODY)
       IN  IF Raised(avg)
           THEN Abort("aggregate", avg) /\ UNCHANGED stdout
           ELSE Advance("aggregate") /\ stdout' = Append(stdout, avg)
    /\ UNCHANGED <<db, gets, response, comments_data, processed_data, files,
                   cacheVars, out>>

NextDriver ==
    \/ Fetch
    \/ CacheWrite
    \/ CacheRead
    \/ Derive
    \/ LineChart
    \/ Histogram
    \/ Aggregate

SpecDriver == InitDriver /\ [][NextDriver]_vars

-----------------------------------------------------------------------------
(* The chart and aggregate methods on their own, over any small dataset.   *)

XS(n) == [i \in 1..n |-> "x"]

ChartRecords ==
    {Rec(p, PyStr(XS(n))) : p \in {PyInt(1), PyInt(2), PyNone}, n \in 0..MaxBodyLen}

\* The frames a ChartGenerator or DataAggregator may be built on: the driver's
\* frame (with its derived column) of a list of records, or the empty frame.
Frames ==
    {IF recs = <<>> THEN EmptyFrame ELSE Derived(PyList(recs)) :
        recs \in SeqsUpTo(ChartRecords, MaxRows)}

InitCharts ==
    /\ db = <<>> /\ IdleCache /\ IdleDriver
    /\ data \in Frames
    /\ out = PyNone

DoLineChart(by, column) ==
    /\ out' = [t |-> "line_chart", by |-> by, column |-> column,
               result |-> line_chart(data, by, column)]
    /\ UNCHANGED <<db, data, cacheVars, driverVars>>

DoHistogram(column, bins) ==
    /\ out' = [t |-> "histogram", column |-> column, bins |-> bins,
               result |-> histogram(data, column, bins)]
    /\ UNCHANGED <<db, data, cacheVars, driverVars>>

DoAverageLength(column) ==
    /\ out' = [t |-> "average_length", column |-> column,
               result |-> average_length(data, column)]
    /\ UNCHANGED <<db, data, cacheVars, driverVars>>

NextCharts ==
    \/ \E by \in {POSTID, EMAIL} : DoLineChart(by, COMMENT_LENGTH)
    \/ \E column \in {BODY, POSTID, EMAIL}, bins \in 1..MaxBins : DoHistogram(column, bins)
    \/ \E column \in {BODY, POSTID, EMAIL} : DoAverageLength(column)

SpecCharts == InitCharts /\ [][NextCharts]_vars

-----------------------------------------------------------------------------
(* The claims about the cache, under SpecCache.                            *)

Retrieved == call.op = "retrieve_data"

\* C1 as stated: for every JSON-serializable value V, mappings with
\* non-string keys included, retrieve_data(key) after insert_data(key, V)
\* returns a value equal to V.
C1_RoundTripEveryValue ==
    Retrieved /\ last[call.key] # NoVal => ret = last[call.key]

\* C1, amended: for every value V whose mapping keys are all strings (null,
\* false, 0, the empty string, list and dict included), retrieve_data(key)
\* after insert_data(key, V) returns a value equal to V.
C1_RoundTripStringKeys ==
    Retrieved /\ last[call.key] # NoVal /\ StrKeyed(last[call.key])
        => ret = last[call.key]

\* A nested value with a quote in a key has been written, read back and
\* come back equal.
C1_Witness ==
    /\ Retrieved
    /\ last[call.key] = PyDict(<< <<PyStr(<<"\"">>), PyDict(<<>>)>> >>)
    /\ ret = last[call.key]

\* C2 as stated: retrieve_data(key) returns None exactly when no blob is
\* stored under key, and the JSON deserialization of the blob whenever one
\* is stored, an empty blob included.
C2_NoneExactlyWhenAbsent ==
    Retrieved =>
        /\ ret = PyNone <=> call.key \notin DOMAIN db
        /\ call.key \in DOMAIN db => ret = loads(db[call.key])

\* C2, amended: retrieve_data(key) returns None when no blob is stored under
\* key or the stored blob is empty, and otherwise what json.loads makes of
\* the blob (None for the blob "null", a decode error for text that is not
\* JSON); an unset key yields None, never a structure and never an error.
C2_NoneWhenAbsentOrEmpty ==
    Retrieved =>
        IF call.key \notin DOMAIN db \/ db[call.key] = <<>>
        THEN ret = PyNone
        ELSE ret = loads(db[call.key])

\* retrieve_data was called on a key that is not set while the other key is.
C2_Witness ==
    /\ Retrieved
    /\ call.key \notin DOMAIN db
    /\ DOMAIN db # {}
    /\ ret = PyNone

\* C4, the part about the value read: in every state, retrieve_data(key)
\* is the value of the most recent insert_data on that key.
C4_ReadsLatestInsertLiterally ==
    \A k \in Keys : last[k] # NoVal => retrieve_data(db, k) = last[k]

\* An insert_data step sets the whole entry under its key to the blob of
\* its value and keeps every other entry.
InsertReplacesOnlyItsKey ==
    call'.op = "insert_data" =>
        /\ DOMAIN db' = DOMAIN db \cup {call'.key}
        /\ db'[call'.key] = dumps(last'[call'.key])
        /\ \A k \in DOMAIN db \ {call'.key} : db'[k] = db[k]

\* C4 as stated: after any sequence of insert_data calls, retrieve_data(key)
\* returns the value of the most recent insert_data on that key; each
\* insert_data replaces the whole entry under its key and leaves the other
\* keys' entries unchanged.
C4_LastWriterWinsEveryValue ==
    []C4_ReadsLatestInsertLiterally /\ [][InsertReplacesOnlyItsKey]_vars

\* C4, amended: after any sequence of insert_data calls, retrieve_data(key)
\* returns the JSON round trip of the value of the most recent insert_data
\* on that key, which is that value when all its mapping keys are strings;
\* each insert_data replaces the whole entry under its key and leaves the
\* other keys' entries unchanged.
C4_LastWriterWins ==
    /\ [](\A k \in Keys :
            last[k] # NoVal =>
                /\ retrieve_data(db, k) = loads(dumps(last[k]))
                /\ StrKeyed(last[k]) => retrieve_data(db, k) = last[k])
    /\ [][InsertReplacesOnlyItsKey]_vars

\* An insert_data has replaced an existing entry while the other key still
\* holds what the backend started with.
C4_Witness ==
    /\ call.op = "insert_data"
    /\ call.had
    /\ \E k \in Keys \ {call.key} : k \in DOMAIN db /\ last[k] = NoVal
    /\ retrieve_data(db, call.key) = last[call.key]

-----------------------------------------------------------------------------
(* The claims about the fetcher and the driver, under SpecDriver.          *)

Stages ==
    <<"fetch", "cache_write", "cache_read", "derive", "line_chart",
      "histogram", "aggregate">>

Position(stage) == CHOOSE i \in DOMAIN Stages : Stages[i] = stage
IsPrefix(a, b) == Len(a) <= Len(b) /\ a = SubSeq(b, 1, Len(a))
Completed(stage) == stage \in Range(log)

BadOutcome(r) ==
    IF r.t = "neterr" THEN TRUE
    ELSE r.status_code \notin 200..299 \/ Raised(loads(r.text))

\* C3: the Fetcher fails, returning no records, whenever its GET ends in a
\* network error, a non-JSON body or a non-success status (a non-success
\* status with a JSON body included), and it issues exactly one GET.
C3_FetcherFailsOnBadOutcome ==
    pc # "fetch" =>
        /\ gets = 1
        /\ BadOutcome(response) =>
              pc = "failed" /\ log = <<>> /\ comments_data = PyNone

\* What the charts and the printed line must show when they are made from
\* the value read back from the cache under redis_key.
FromCache == Derived(retrieve_data(db, redis_key))

\* C5: the stages run in the order fetch, cache write, cache read, derive,
\* line chart, histogram, aggregate; a stage starts only when all before it
\* have completed, none runs twice, and what is charted and aggregated is
\* the dataset read back from the cache under the key that was written.
C5_StagesInOrder ==
    /\ IsPrefix(log, Stages)
    /\ pc \in Range(Stages) => Len(log) = Position(pc) - 1
    /\ pc = "done" => log = Stages
    /\ Len(files) = Cardinality({"line_chart", "histogram"} \cap Range(log))
    /\ Len(stdout) = IF Completed("aggregate") THEN 1 ELSE 0
    /\ Completed("cache_write") =>
          redis_key \in DOMAIN db /\ db[redis_key] = dumps(comments_data)
    /\ Completed("line_chart") =>
          files[1] = [name |-> LineChartFile,
                      plot |-> line_chart(FromCache, POSTID, COMMENT_LENGTH)]
    /\ Completed("histogram") =>
          files[2] = [name |-> HistogramFile,
                      plot |-> histogram(FromCache, BODY, HistogramBins)]
    /\ Completed("aggregate") => stdout = <<average_length(FromCache, BODY)>>

\* The run on the three comments (1, "hi"), (1, "hello"), (2, "hey") has
\* finished: the averages per post are 3.5 and 3, the average printed 10/3.
C5_Witness ==
    /\ pc = "done"
    /\ comments_data = PyList(<<Rec(PyInt(1), PyStr(<<"h", "i">>)),
                                Rec(PyInt(1), PyStr(<<"h", "e", "l", "l", "o">>)),
                                Rec(PyInt(2), PyStr(<<"h", "e", "y">>))>>)
    /\ files[1].plot.xs = << <<1, Float(7, 2)>>, <<2, Float(3, 1)>> >>
    /\ stdout = <<Float(10, 3)>>

LacksBody(v) ==
    v.t = "list" /\ \E i \in DOMAIN v.xs : DictGet(v.xs[i].kv, PyStr(BODY)).t # "str"

\* C6: a run either completes every stage or ends in a visible failure;
\* once a stage fails (network failure, cache unavailable, malformed JSON,
\* missing field, the cache read returning None) nothing later runs: no
\* chart file is written afterwards and no average is printed.
C6_NoPartialSuccess ==
    /\ pc \in Range(Stages) \cup {"done", "failed"}
    /\ pc = "done" =>
          error = PyNone /\ log = Stages /\ Len(files) = 2 /\ Len(stdout) = 1
    /\ Raised(error) <=> pc = "failed"
    /\ pc = "failed" =>
          /\ ~ENABLED NextDriver
          /\ stdout = <<>>
          /\ Len(files) = Cardinality({"line_chart", "histogram"} \cap Range(log))
    /\ response # PyNone /\ response.t = "neterr" => pc = "failed" /\ log = <<>>
    /\ response # PyNone /\ response.t = "response" /\ Raised(loads(response.text)) =>
          pc = "failed" /\ log = <<>>
    /\ Completed("cache_read") /\ retrieve_data(db, redis_key) = PyNone =>
          pc \in {"derive", "failed"} /\ files = <<>> /\ stdout = <<>>
    /\ LacksBody(comments_data) =>
          ~Completed("derive") /\ files = <<>> /\ stdout = <<>>

\* The cache read returned None (the API sent null), deriving the column
\* failed, and the run stopped there with nothing drawn or printed.
C6_Witness ==
    /\ pc = "failed"
    /\ log = <<"fetch", "cache_write", "cache_read">>
    /\ retrieve_data(db, redis_key) = PyNone
    /\ error = Raise("KeyError")
    /\ files = <<>> /\ stdout = <<>>

NoCommentLength(v) ==
    v.t = "list" =>
        \A i \in DOMAIN v.xs :
            v.xs[i].t = "dict" =>
                \A j \in DOMAIN v.xs[i].kv : v.xs[i].kv[j][1] # PyStr(COMMENT_LENGTH)

\* C10: comment_length lives in the in-memory frame only.  From the cache
\* write on, the entry under 'comments_data' is the JSON text of the fetched
\* dataset, with no comment_length in it; once derived, the driver's frame
\* stays what deriving made of the value read back, through both charts and
\* the aggregate.
C10_DerivedColumnInMemoryOnly ==
    /\ Completed("cache_write") =>
          /\ redis_key \in DOMAIN db
          /\ db[redis_key] = dumps(comments_data)
          /\ NoCommentLength(loads(db[redis_key]))
    /\ Completed("derive") =>
          /\ COMMENT_LENGTH \in Range(processed_data.cols)
          /\ processed_data = Derived(loads(dumps(comments_data)))

\* A run over two comments or more has finished, the derived column in the
\* frame.
C10_Witness ==
    /\ pc = "done"
    /\ Len(processed_data.rows) >= 2
    /\ COMMENT_LENGTH \in Range(processed_data.cols)
    /\ \A i \in DOMAIN processed_data.rows :
          processed_data.rows[i][COMMENT_LENGTH] = PyInt(PyLen(processed_data.rows[i][BODY]))

-----------------------------------------------------------------------------
(* The claims about the aggregate and the charts, under SpecCharts.        *)

RECURSIVE SumOver(_, _)
SumOver(I, f) ==
    IF I = {} THEN 0
    ELSE LET i == CHOOSE j \in I : TRUE IN f[i] + SumOver(I \ {i}, f)

Perms(n) == {p \in [1..n -> 1..n] : \A i, j \in 1..n : p[i] = p[j] => i = j}
Permuted(df, p) == Frame(df.cols, [i \in DOMAIN df.rows |-> df.rows[p[i]]])

AllStrings(df, column) ==
    /\ df.rows # <<>>
    /\ column \in Range(df.cols)
    /\ \A i \in DOMAIN df.rows : df.rows[i][column].t = "str"

\* C7: on a non-empty dataset whose column holds only strings,
\* average_length(column) is the sum of the strings' lengths over the number
\* of records, and is the same for every permutation of the records.
C7_AverageLengthIsMean ==
    out.t = "average_length" /\ AllStrings(data, out.column) =>
        LET n == Len(data.rows)
            total == SumOver(1..n, [i \in 1..n |-> Len(data.rows[i][out.column].s)])
        IN  /\ out.result.t = "float"
            /\ out.result.den > 0
            /\ out.result.num * n = total * out.result.den
            /\ \A p \in Perms(n) :
                  average_length(Permuted(data, p), out.column) = out.result

\* The average of three bodies whose lengths do not divide evenly.
C7_Witness ==
    /\ out.t = "average_length"
    /\ out.column = BODY
    /\ Len(data.rows) = 3
    /\ out.result = Float(4, 3)

Grouped(df, by, column) ==
    df.rows # <<>> /\ by \in Range(df.cols) /\ column \in Range(df.cols)

\* The series is keyed in ascending order and holds, for each key, the mean
\* of the column over the records with that key.
KeyedMeans(df, by, column, series) ==
    /\ series.t = "series"
    /\ \A i, j \in DOMAIN series.xs : i < j => series.xs[i][1] < series.xs[j][1]
    /\ \A i \in DOMAIN series.xs :
          LET g == series.xs[i][1]
              m == series.xs[i][2]
              I == {r \in DOMAIN df.rows : df.rows[r][by] = PyInt(g)}
          IN  /\ I # {}
              /\ m.t = "float"
              /\ m.num * Cardinality(I)
                    = m.den * SumOver(I, [r \in DOMAIN df.rows |-> df.rows[r][column].n])

SeriesKeys(series) == {PyInt(series.xs[i][1]) : i \in DOMAIN series.xs}

\* C8 as stated: the series line_chart plots maps each distinct value of the
\* `by` column to the mean of `column` over its records; its keys are the
\* distinct `by` values, none dropped (a missing or null one included) and
\* none added, in ascending order.
C8_KeysAreAllByValues ==
    out.t = "line_chart" /\ Grouped(data, out.by, out.column) =>
        /\ KeyedMeans(data, out.by, out.column, out.result)
        /\ SeriesKeys(out.result) = {data.rows[i][out.by] : i \in DOMAIN data.rows}

\* C8, amended: the series line_chart plots maps each distinct value of the
\* `by` column that is not null or missing to the mean of `column` over its
\* records, in ascending key order; the records whose `by` is null or
\* missing are left out, and no key is added.
C8_KeysAreNonNullByValues ==
    out.t = "line_chart" /\ Grouped(data, out.by, out.column) =>
        /\ KeyedMeans(data, out.by, out.column, out.result)
        /\ SeriesKeys(out.result)
              = {data.rows[i][out.by] : i \in DOMAIN data.rows} \ {PyNone, NaN}

\* Two posts are charted from a dataset that also has a comment with a null
\* postId.
C8_Witness ==
    /\ out.t = "line_chart"
    /\ out.by = POSTID
    /\ out.result.t = "series"
    /\ Len(out.result.xs) = 2
    /\ \E i \in DOMAIN data.rows : data.rows[i][POSTID] = PyNone

\* x lies in bin b (from 0) of `bins` equal-width bins over [lo, hi], the
\* last bin taking hi; for lo = hi the bins span [lo - 1/2, hi + 1/2].
InBin(x, b, lo, hi, bins) ==
    IF lo = hi
    THEN 2 * b <= bins * (2 * (x - lo) + 1) /\ bins * (2 * (x - lo) + 1) < 2 * (b + 1)
    ELSE \/ b * (hi - lo) <= (x - lo) * bins /\ (x - lo) * bins < (b + 1) * (hi - lo)
         \/ b = bins - 1 /\ x = hi

\* C9: on a dataset with a string column, histogram(column, bins=N) puts
\* each record's length in exactly one of N equal-width bins from the least
\* to the greatest length, so the frequencies add up to len(D), also when
\* all lengths are equal and for a length on the greatest edge.
C9_HistogramCountsEveryRecord ==
    out.t = "histogram" /\ AllStrings(data, out.column) =>
        LET n == Len(data.rows)
            lens == [i \in 1..n |-> Len(data.rows[i][out.column].s)]
            lo == SeqMin(lens)
            hi == SeqMax(lens)
            N == out.bins
        IN  /\ out.result.t = "hist"
            /\ Len(out.result.counts) = N
            /\ SumOver(1..N, out.result.counts) = n
            /\ \A i \in 1..n :
                  Cardinality({b \in 0..(N - 1) : InBin(lens[i], b, lo, hi, N)}) = 1
            /\ \A b \in 0..(N - 1) :
                  out.result.counts[b + 1]
                     = Cardinality({i \in 1..n : InBin(lens[i], b, lo, hi, N)})

\* Three bins over the lengths 0, 1 and 2 hold one record each, the greatest
\* length in the last.
C9_Witness ==
    /\ out.t = "histogram"
    /\ out.column = BODY
    /\ out.bins = 3
    /\ out.result.t = "hist"
    /\ out.result.counts = <<1, 1, 1>>

====
